---- MODULE Spec2Model ----
(***************************************************************************)
(* unitool: running Unity headless, loading the XML test report it leaves  *)
(* behind (src/src/testing.rs), and printing it (src/src/display.rs,       *)
(* src/src/main.rs).                                                       *)
(*                                                                         *)
(* A Rust String is a sequence of tokens.  The token LF is the line feed;  *)
(* every other token is an opaque, non-empty piece of text (a glyph, a     *)
(* name, a space, one ANSI escape sequence).  Texts hold no carriage       *)
(* return.                                                                 *)
(***************************************************************************)
EXTENDS Integers, Sequences, FiniteSets, TLC

VARIABLES
    pc,         \* position of main() running the `test` subcommand
    colorize,   \* colored's SHOULD_COLORIZE: decided by the environment
    dirs,       \* UNITY_DIR: whether it can be read, and its entries
    path,       \* the entry find_unity_path selected, 0 before it has
    log,        \* the bytes Unity wrote to its stdout
    file,       \* the document at TEST_RESULTS_PATH, None when there is none
    opens,      \* how often TEST_RESULTS_PATH has been opened
    errs,       \* the compile errors run_unity collected
    ret,        \* what test() returned to main(), None before it returns
    panic,      \* the place where the process panicked, "" while it has not
    out         \* what main() has written to stdout

vars == <<pc, colorize, dirs, path, log, file, opens, errs, ret, panic, out>>

None == [tag |-> "none"]

(***************************************************************************)
(* Strings                                                                 *)
(***************************************************************************)
LF == "\n"
SP == " "
RESET == "ESC[0m"

RECURSIVE Join(_, _)
Join(strs, sep) ==
    IF strs = <<>> THEN <<>>
    ELSE IF Len(strs) = 1 THEN strs[1]
    ELSE strs[1] \o sep \o Join(Tail(strs), sep)

\* str::lines(): the pieces between line feeds; a final line feed ends the
\* last line and starts no new one.
lines(s) ==
    LET n == Len(s)
        \* the position just past each line
        ends == {i \in 1..n : s[i] = LF} \cup (IF n > 0 /\ s[n] # LF THEN {n + 1} ELSE {})
        End(j) == CHOOSE e \in ends : Cardinality({x \in ends : x < e}) = j - 1
        Start(j) == IF j = 1 THEN 1 ELSE End(j - 1) + 1
    IN  [j \in 1..Cardinality(ends) |-> SubSeq(s, Start(j), End(j) - 1)]

IndentWidth == 4

Spaces(n) == [i \in 1..n |-> SP]

indent_FirstLineOnly(text) == Spaces(IndentWidth) \o text

indent(text) ==
    LET ls == lines(text)
    IN  Join([i \in 1..Len(ls) |-> Spaces(IndentWidth) \o ls[i]], <<LF>>)

\* ColoredString's Display: the style's escape sequence, the text, the reset
\* sequence; the bare text when colouring is off.
Styled(style, text) ==
    IF colorize THEN <<style>> \o text \o <<RESET>> ELSE text

green(text) == Styled("ESC[38;2;0;175;135m", text)
red(text) == Styled("ESC[38;2;255;47;109m", text)
muted(text) == Styled("ESC[38;2;68;68;68m", text)
on_red(text) == Styled("ESC[48;2;255;47;109;38;2;28;28;28m", text)
on_green(text) == Styled("ESC[48;2;0;175;135;38;2;28;28;28m", text)
muted_bold(text) == Styled("ESC[1;38;2;68;68;68m", text)
bold(text) == Styled("ESC[1m", text)
trace_color(text) == Styled("ESC[38;2;157;174;179m", text)

(***************************************************************************)
(* Display of the report tree                                              *)
(***************************************************************************)
TestResult_fmt(result) ==
    CASE result = "Failed" -> red(<<"x">>)
      [] result = "Passed" -> green(<<"v">>)
      [] result = "Skipped" -> muted(<<"-">>)

FailureDetail_fmt(d) ==
    CASE d.tag = "message" -> red(d.text)
      [] d.tag = "stack-trace" -> trace_color(d.text)

FailureInfo_fmt(details) ==
    Join([i \in 1..Len(details) |-> FailureDetail_fmt(details[i])], <<LF>>)

RECURSIVE PushDetails_Reversed(_, _)
PushDetails_Reversed(reprs, keep) ==
    IF reprs = <<>> THEN <<>>
    ELSE PushDetails_Reversed(Tail(reprs), Tail(keep))
         \o (IF keep[1] /\ reprs[1] # <<>> THEN <<indent(reprs[1])>> ELSE <<>>)

RECURSIVE PushDetails_KeepsEmpty(_, _)
PushDetails_KeepsEmpty(reprs, keep) ==
    IF reprs = <<>> THEN <<>>
    ELSE (IF keep[1] THEN <<indent(reprs[1])>> ELSE <<>>)
         \o PushDetails_KeepsEmpty(Tail(reprs), Tail(keep))

\* lines.push(indent(&repr)) for every detail in `keep` whose repr is not empty
RECURSIVE PushDetails(_, _)
PushDetails(reprs, keep) ==
    IF reprs = <<>> THEN <<>>
    ELSE (IF keep[1] /\ reprs[1] # <<>> THEN <<indent(reprs[1])>> ELSE <<>>)
         \o PushDetails(Tail(reprs), Tail(keep))

CaseSkips_MarkerShown(case, detail) ==
    detail.tag = "output" /\ case.result = "Passed"

CaseSkips_OutputShown(case, detail) == detail.tag = "properties"

CaseSkips(case, detail) ==
    \/ detail.tag = "properties"
    \/ detail.tag = "output" /\ case.result = "Passed"

SuiteSkips(suite, detail) == detail.tag = "properties"

SuiteName_PassedFirst(suite) ==
    IF suite.passed = suite.total THEN on_green(<<SP, suite.name, SP>>)
    ELSE IF suite.failed > 0 THEN on_red(<<SP, suite.name, SP>>)
    ELSE muted_bold(<<suite.name>>)

SuiteName(suite) ==
    IF suite.failed > 0 THEN on_red(<<SP, suite.name, SP>>)
    ELSE IF suite.passed = suite.total THEN on_green(<<SP, suite.name, SP>>)
    ELSE muted_bold(<<suite.name>>)

SuiteHeader(suite) ==
    SuiteName(suite) \o <<SP>> \o green(<<ToString(suite.passed)>>)
        \o <<SP>> \o red(<<ToString(suite.failed)>>)
        \o <<SP>> \o muted(<<ToString(suite.skipped)>>)

CaseLine(case) ==
    TestResult_fmt(case.result) \o <<SP>>
        \o (IF case.result = "Failed" THEN bold(<<case.name>>) ELSE <<case.name>>)

CaseHead_NoBlank(case) == <<CaseLine(case)>>

CaseHead(case) ==
    (IF case.result = "Failed" THEN <<<<>>>> ELSE <<>>) \o <<CaseLine(case)>>

RECURSIVE TestDetail_fmt(_), TestCase_fmt(_), TestSuite_fmt(_)
TestDetail_fmt(d) ==
    CASE d.tag = "test-suite" -> TestSuite_fmt(d)
      [] d.tag = "test-case" -> TestCase_fmt(d)
      [] d.tag = "failure" -> FailureInfo_fmt(d.details)
      [] d.tag = "output" -> d.text
      [] d.tag = "properties" -> <<"[Properties]">>
      [] d.tag = "reason" -> FailureInfo_fmt(d.details)

TestCase_fmt(case) ==
    LET ds == case.details
        reprs == [i \in 1..Len(ds) |-> TestDetail_fmt(ds[i])]
        keep == [i \in 1..Len(ds) |-> ~CaseSkips(case, ds[i])]
    IN  Join(CaseHead(case) \o PushDetails(reprs, keep), <<LF>>)

TestSuite_fmt(suite) ==
    LET ds == suite.details
        reprs == [i \in 1..Len(ds) |-> TestDetail_fmt(ds[i])]
        keep == [i \in 1..Len(ds) |-> ~SuiteSkips(suite, ds[i])]
    IN  Join(<<SuiteHeader(suite)>> \o PushDetails(reprs, keep), <<LF>>)

TestSummary_fmt(s) ==
    Join([i \in 1..Len(s.test_suites) |-> TestSuite_fmt(s.test_suites[i])], <<LF>>)

(***************************************************************************)
(* The report trees the model draws from: every report of bounded weight   *)
(* (NodeWeight units per node, one per text token and per counted test),   *)
(* every header of bounded counters over the one-node bodies, and a few    *)
(* larger reports, the scenario of the specification among them.           *)
(***************************************************************************)
MaxWeight == 7
MaxCount == 2
MaxLeaf == 3
MaxCases == 3
MaxChain == 1

\* an element weighs its two tags
NodeWeight == Len(<<"open", "close">>)

TextAlphabet == {"o", LF}
Results == {"Failed", "Passed", "Skipped"}

TextsOfLen(n) == [1..n -> TextAlphabet]

FailureDetailsOfWeight(w) ==
    IF w < NodeWeight THEN {}
    ELSE {[tag |-> t, text |-> x] :
            t \in {"message", "stack-trace"}, x \in TextsOfLen(w - NodeWeight)}

RECURSIVE FailureSeqs(_)
FailureSeqs(w) ==
    IF w = 0 THEN {<<>>}
    ELSE UNION {{<<d>> \o s : d \in FailureDetailsOfWeight(k), s \in FailureSeqs(w - k)}
                    : k \in 1..w}

CountersOfWeight(w) ==
    {c \in [failed : 0..w, passed : 0..w, skipped : 0..w, total : 0..w] :
        c.failed + c.passed + c.skipped + c.total = w}

MkSuite(c, ds) ==
    [tag |-> "test-suite", kind |-> "TestFixture", name |-> "S",
     failed |-> c.failed, passed |-> c.passed, skipped |-> c.skipped,
     total |-> c.total, details |-> ds]

MkCase(r, ds) == [tag |-> "test-case", name |-> "t", result |-> r, details |-> ds]

\* seqs[j + 1] holds the sequences of weight j, for every j < w
SuitesOfWeight(w, seqs) ==
    UNION {{MkSuite(c, ds) : c \in CountersOfWeight(k), ds \in seqs[w - NodeWeight - k + 1]}
              : k \in 0..(w - NodeWeight)}

DetailsOfWeight(w, seqs) ==
    IF w < NodeWeight THEN {}
    ELSE (IF w = NodeWeight THEN {[tag |-> "properties"]} ELSE {})
        \cup {[tag |-> "output", text |-> x] : x \in TextsOfLen(w - NodeWeight)}
        \cup {[tag |-> t, details |-> f] :
                t \in {"failure", "reason"}, f \in FailureSeqs(w - NodeWeight)}
        \cup {MkCase(r, ds) : r \in Results, ds \in seqs[w - NodeWeight + 1]}
        \cup SuitesOfWeight(w, seqs)

\* sequences of weight w over `items`, items[k] the items of weight k <= w
SeqsOfWeight(w, items, seqs) ==
    UNION {{<<d>> \o s : d \in items[k], s \in seqs[w - k + 1]} : k \in 1..w}

RECURSIVE DetailTable(_, _, _)
DetailTable(w, details, seqs) ==
    IF w > MaxWeight - NodeWeight THEN [details |-> details, seqs |-> seqs]
    ELSE LET ds == Append(details, DetailsOfWeight(w, seqs))
         IN  DetailTable(w + 1, ds, Append(seqs, SeqsOfWeight(w, ds, seqs)))

Details == DetailTable(1, <<>>, <<{<<>>}>>)

RECURSIVE SuiteSeqTable(_, _, _)
SuiteSeqTable(w, suites, seqs) ==
    IF w > MaxWeight THEN seqs
    ELSE LET ss == Append(suites, IF w < NodeWeight THEN {}
                                  ELSE SuitesOfWeight(w, Details.seqs))
         IN  SuiteSeqTable(w + 1, ss, Append(seqs, SeqsOfWeight(w, ss, seqs)))

SuiteSeqs == SuiteSeqTable(1, <<>>, <<{<<>>}>>)

HeaderReports ==
    {<<MkSuite(c, ds)>> :
        c \in [failed : 0..MaxCount, passed : 0..MaxCount,
               skipped : 0..MaxCount, total : 0..MaxCount],
        ds \in Details.seqs[1] \cup Details.seqs[NodeWeight + 1]}

\* one detail without children under a chain of containers that hold nothing
\* else; two small ones, or a row of cases without details, under at most
\* one such container
LeavesUpTo(max) ==
    {[tag |-> "properties"]}
    \cup UNION {{[tag |-> "output", text |-> x] : x \in TextsOfLen(n)} : n \in 0..max}
    \cup UNION {{[tag |-> t, details |-> f] : t \in {"failure", "reason"},
                                             f \in FailureSeqs(n)} : n \in 0..max}

LeafDetails == LeavesUpTo(MaxLeaf)

LeafPairs == {<<a, b>> : a, b \in LeavesUpTo(NodeWeight)}

CaseRows == UNION {[1..n -> {MkCase(r, <<>>) : r \in Results}] : n \in 1..MaxCases}

ZeroCounters == [failed |-> 0, passed |-> 0, skipped |-> 0, total |-> 0]

ChainEnds == {<<l>> : l \in LeafDetails}

ShortEnds == LeafPairs \cup CaseRows

ContainerKinds == {"test-suite"} \cup Results

RECURSIVE Chain(_, _)
Chain(kinds, ds) ==
    IF kinds = <<>> THEN ds
    ELSE LET inner == Chain(Tail(kinds), ds)
         IN  IF kinds[1] = "test-suite" THEN <<MkSuite(ZeroCounters, inner)>>
             ELSE <<MkCase(kinds[1], inner)>>

ScenarioReport ==
    <<[tag |-> "test-suite", kind |-> "Assembly", name |-> "Core",
       failed |-> 1, passed |-> 2, skipped |-> 0, total |-> 3,
       details |-> <<
          [tag |-> "test-case", name |-> "A", result |-> "Passed", details |-> <<>>],
          [tag |-> "test-case", name |-> "B", result |-> "Passed", details |-> <<>>],
          [tag |-> "test-case", name |-> "C", result |-> "Failed", details |-> <<
              [tag |-> "failure", details |-> <<
                  [tag |-> "message", text |-> <<"expected 1 got 2">>],
                  [tag |-> "stack-trace", text |-> <<"at Foo.Bar:12">>]>>]>>]>>]>>

(***************************************************************************)
(* The report file (src/src/testing.rs): an XML element is a record with   *)
(* its tag, one field per attribute it carries, its child elements `kids`  *)
(* and its character data `text`                                           *)
(***************************************************************************)
Ok(v) == [ok |-> TRUE, value |-> v]
Err(e) == [ok |-> FALSE, err |-> e]

Kids(e) == IF "kids" \in DOMAIN e THEN e.kids ELSE <<>>
Text(e) == IF "text" \in DOMAIN e THEN e.text ELSE <<>>

\* the document Unity writes for a detail
RECURSIVE Xml(_)
Xml(d) ==
    CASE d.tag = "test-case" ->
           [tag |-> "test-case", name |-> d.name, result |-> d.result,
            kids |-> [i \in 1..Len(d.details) |-> Xml(d.details[i])]]
      [] d.tag = "test-suite" ->
           [tag |-> "test-suite", type |-> d.kind, name |-> d.name,
            failed |-> d.failed, passed |-> d.passed, skipped |-> d.skipped,
            total |-> d.total,
            kids |-> [i \in 1..Len(d.details) |-> Xml(d.details[i])]]
      [] d.tag \in {"failure", "reason"} ->
           [tag |-> d.tag,
            kids |-> [i \in 1..Len(d.details) |-> d.details[i]]]
      [] OTHER -> d

TestRun(suites) ==
    [tag |-> "test-run", kids |-> [i \in 1..Len(suites) |-> Xml(suites[i])]]

\* a sequence field renamed "$value": the children, each deserialized; a
\* field without a default is missing when there is no child
de_Vec(rs) ==
    IF rs = <<>> THEN Err("missing field")
    ELSE IF \E i \in 1..Len(rs) : ~rs[i].ok
         THEN rs[CHOOSE i \in 1..Len(rs) :
                    ~rs[i].ok /\ \A j \in 1..(i - 1) : rs[j].ok]
         ELSE Ok([i \in 1..Len(rs) |-> rs[i].value])

Missing(e, attrs) == attrs \ DOMAIN e

de_TestResult(v) ==
    IF v \in {"Failed", "Passed", "Skipped"} THEN Ok(v)
    ELSE Err("unknown variant")

de_FailureDetail(e) ==
    IF e.tag \in {"message", "stack-trace"}
    THEN Ok([tag |-> e.tag, text |-> Text(e)])
    ELSE Err("unknown variant")

de_FailureInfo(e) ==
    de_Vec([i \in 1..Len(Kids(e)) |-> de_FailureDetail(Kids(e)[i])])

RECURSIVE de_TestDetail(_)
de_TestCase(e) ==
    IF Missing(e, {"name", "result"}) # {} THEN Err("missing field")
    ELSE LET r == de_TestResult(e.result)
             ds == de_Vec([i \in 1..Len(Kids(e)) |-> de_TestDetail(Kids(e)[i])])
         IN  IF ~r.ok THEN r
             ELSE IF ~ds.ok THEN ds
             ELSE Ok([tag |-> "test-case", name |-> e.name,
                      result |-> r.value, details |-> ds.value])

de_TestSuite(e) ==
    IF Missing(e, {"type", "name", "failed", "passed", "skipped", "total"}) # {}
    THEN Err("missing field")
    ELSE LET ds == de_Vec([i \in 1..Len(Kids(e)) |-> de_TestDetail(Kids(e)[i])])
         IN  IF ~ds.ok THEN ds
             ELSE Ok([tag |-> "test-suite", kind |-> e.type, name |-> e.name,
                      failed |-> e.failed, passed |-> e.passed,
                      skipped |-> e.skipped, total |-> e.total,
                      details |-> ds.value])

de_TestDetail(e) ==
    CASE e.tag = "test-case" -> de_TestCase(e)
      [] e.tag = "test-suite" -> de_TestSuite(e)
      [] e.tag \in {"failure", "reason"} ->
           LET f == de_FailureInfo(e)
           IN  IF f.ok THEN Ok([tag |-> e.tag, details |-> f.value]) ELSE f
      [] e.tag = "output" -> Ok([tag |-> "output", text |-> Text(e)])
      [] e.tag = "properties" -> Ok([tag |-> "properties"])
      [] OTHER -> Err("unknown variant")

NotXml == [tag |-> "#not-xml"]

de_TestSummary(doc) ==
    IF doc = NotXml THEN Err("syntax")
    ELSE LET ss == de_Vec([i \in 1..Len(Kids(doc)) |-> de_TestSuite(Kids(doc)[i])])
         IN  IF ss.ok THEN Ok([test_suites |-> ss.value]) ELSE ss

\* what load_test_results does with the file: the summary, or the panic of
\* the unwrap() that met an Err
load_test_results(f) ==
    IF f = None THEN [panics |-> TRUE, at |-> "load_test_results: File::open"]
    ELSE LET r == de_TestSummary(f)
         IN  IF r.ok THEN [panics |-> FALSE, results |-> r.value]
             ELSE [panics |-> TRUE, at |-> "load_test_results: de::from_reader"]

(***************************************************************************)
(* What Unity may find and leave behind                                    *)
(***************************************************************************)
MaxVersion == 2
MaxLog == 2

UnityDirs ==
    {[readable |-> FALSE, entries |-> {}]}
    \cup {[readable |-> TRUE, entries |-> e] : e \in SUBSET (1..MaxVersion)}

BAD == "0xFF"
ERROR_CS == <<"error", SP, "CS">>

LogLines ==
    {<<"A.cs(1,2):", SP>> \o ERROR_CS \o <<"0103:", SP, "no", SP, "x">>,
     <<"B.cs(3,4):", SP>> \o ERROR_CS \o <<"1002:", SP, ";", SP, "expected">>,
     <<"C.cs(5,6):", SP, "warning", SP, "CS", "0168">>,
     <<"Refresh", SP, BAD>>}

RECURSIVE Flatten(_)
Flatten(ls) == IF ls = <<>> THEN <<>> ELSE ls[1] \o <<LF>> \o Flatten(Tail(ls))

Stdouts == {Flatten(ls) : ls \in UNION {[1..n -> LogLines] : n \in 0..MaxLog}}

ToolLeaves ==
    {[tag |-> "properties"],
     [tag |-> "output", text |-> <<"o">>],
     [tag |-> "failure", details |-> <<[tag |-> "message", text |-> <<"o">>]>>]}

WellFormed ==
    {TestRun(Chain(<<"test-suite", k>>, <<l>>)) : k \in ContainerKinds, l \in ToolLeaves}

XCase(attrs) == [tag |-> "test-suite", kids |-> <<attrs>>] @@
                [type |-> "TestFixture", name |-> "S", failed |-> 0,
                 passed |-> 0, skipped |-> 0, total |-> 0]

Malformed ==
    {NotXml,
     [tag |-> "test-run",
      kids |-> <<XCase([tag |-> "test-case", name |-> "t", result |-> "Weird",
                        kids |-> <<[tag |-> "properties"]>>])>>],
     [tag |-> "test-run",
      kids |-> <<XCase([tag |-> "test-case", name |-> "t",
                        kids |-> <<[tag |-> "properties"]>>])>>],
     [tag |-> "test-run",
      kids |-> <<XCase([tag |-> "test-case", name |-> "t", result |-> "Passed",
                        kids |-> <<[tag |-> "bogus"]>>])>>],
     [tag |-> "test-run",
      kids |-> <<[tag |-> "test-suite", type |-> "TestFixture", name |-> "S",
                  failed |-> 0, passed |-> 0, skipped |-> 0,
                  kids |-> <<[tag |-> "properties"]>>]>>]}

Documents == WellFormed \cup Malformed

\* what an earlier run may have left at TEST_RESULTS_PATH
Stale ==
    {None,
     TestRun(Chain(<<"test-suite", "Passed">>, <<[tag |-> "properties"]>>)),
     NotXml}

(***************************************************************************)
(* test() and run_unity() (src/src/lib.rs)                                 *)
(***************************************************************************)
\* cands.sort()
sort(S) ==
    CHOOSE f \in [1..Cardinality(S) -> S] :
        \A i, j \in 1..Cardinality(S) : i < j => f[i] < f[j]

find_unity_path ==
    /\ pc = "start"
    /\ IF ~dirs.readable
       THEN /\ ret' = Err("read_dir")
            /\ pc' = "returned"
            /\ UNCHANGED <<path, panic>>
       ELSE LET cands == sort(dirs.entries)
            IN  IF Len(cands) = 0
                THEN /\ pc' = "panicked"
                     /\ panic' = "find_unity_path: cands[0]"
                     /\ UNCHANGED <<path, ret>>
                ELSE /\ path' = cands[1]
                     /\ pc' = "found"
                     /\ UNCHANGED <<ret, panic>>
    /\ UNCHANGED <<colorize, dirs, log, file, opens, errs, out>>

\* cmd.output(): the binary cannot be started, or Unity runs to its end,
\* writes its log to stdout and leaves, or not, a report
SpawnFails ==
    /\ pc = "found"
    /\ ret' = Err("spawn")
    /\ pc' = "returned"
    /\ UNCHANGED <<colorize, dirs, path, log, file, opens, errs, panic, out>>

UnityRuns ==
    /\ pc = "found"
    /\ log' \in Stdouts
    /\ file' \in {file} \cup Documents
    /\ pc' = "ran"
    /\ UNCHANGED <<colorize, dirs, path, opens, errs, ret, panic, out>>

Contains(line, pat) ==
    \E i \in 1..(Len(line) - Len(pat) + 1) :
        SubSeq(line, i, i + Len(pat) - 1) = pat

ErrorsIn(stdout) ==
    LET ls == lines(stdout)
    IN  {ls[i] : i \in {j \in 1..Len(ls) : Contains(ls[j], ERROR_CS)}}

run_unity ==
    /\ pc = "ran"
    /\ IF \E i \in 1..Len(log) : log[i] = BAD
       THEN /\ ret' = Err("from_utf8")
            /\ pc' = "returned"
            /\ UNCHANGED errs
       ELSE /\ errs' = ErrorsIn(log)
            /\ pc' = "extracted"
            /\ UNCHANGED ret
    /\ UNCHANGED <<colorize, dirs, path, log, file, opens, panic, out>>

LoadsResults_Always(e) == TRUE

\* if errs.is_empty()
LoadsResults(e) == e = {}

LoadTestResults ==
    /\ pc = "extracted"
    /\ LoadsResults(errs)
    /\ opens' = opens + 1
    /\ LET r == load_test_results(file)
       IN  IF r.panics
           THEN /\ pc' = "panicked"
                /\ panic' = r.at
                /\ UNCHANGED ret
           ELSE /\ ret' = [ok |-> TRUE, errs |-> errs, results |-> r.results]
                /\ pc' = "returned"
                /\ UNCHANGED panic
    /\ UNCHANGED <<colorize, dirs, path, log, file, errs, out>>

ReturnErrors ==
    /\ pc = "extracted"
    /\ ~LoadsResults(errs)
    /\ ret' = [ok |-> TRUE, errs |-> errs, results |-> None]
    /\ pc' = "returned"
    /\ UNCHANGED <<colorize, dirs, path, log, file, opens, errs, panic, out>>

(***************************************************************************)
(* main(), `test` subcommand (src/src/main.rs)                             *)
(***************************************************************************)
Unwrap ==
    /\ pc = "returned"
    /\ ~ret.ok
    /\ pc' = "panicked"
    /\ panic' = "main: unwrap"
    /\ UNCHANGED <<colorize, dirs, path, log, file, opens, errs, ret, out>>

PrintResults ==
    /\ pc = "returned"
    /\ ret.ok
    /\ ret.results # None
    /\ out' = out \o TestSummary_fmt(ret.results) \o <<LF>>
    /\ pc' = "done"
    /\ UNCHANGED <<colorize, dirs, path, log, file, opens, errs, ret, panic>>

\* a HashSet is iterated in an arbitrary order
PrintErrors ==
    /\ pc = "returned"
    /\ ret.ok
    /\ ret.results = None
    /\ \E order \in [1..Cardinality(ret.errs) -> ret.errs] :
         /\ \A i, j \in DOMAIN order : i # j => order[i] # order[j]
         /\ out' = out \o Flatten([i \in DOMAIN order |-> <<SP, SP>> \o order[i]])
    /\ pc' = "done"
    /\ UNCHANGED <<colorize, dirs, path, log, file, opens, errs, ret, panic>>

Init ==
    /\ pc = "start"
    /\ colorize \in BOOLEAN
    /\ dirs \in UnityDirs
    /\ path = 0
    /\ log = <<>>
    /\ file \in Stale
    /\ opens = 0
    /\ errs = {}
    /\ ret = None
    /\ panic = ""
    /\ out = <<>>

Next ==
    \/ find_unity_path
    \/ SpawnFails
    \/ UnityRuns
    \/ run_unity
    \/ LoadTestResults
    \/ ReturnErrors
    \/ Unwrap
    \/ PrintResults
    \/ PrintErrors

Spec == Init /\ [][Next]_vars

Returned(r) == [ok |-> TRUE, errs |-> {}, results |-> [test_suites |-> r]]

\* main() at the point where test() has returned Some(results), for the
\* summaries of the families above
InitRender ==
    /\ pc = "returned"
    /\ colorize \in BOOLEAN
    /\ dirs = [readable |-> TRUE, entries |-> {1}]
    /\ path = 1
    /\ log = <<>>
    /\ file = None
    /\ opens = 1
    /\ errs = {}
    /\ panic = ""
    /\ \/ \E w \in 0..MaxWeight : \E r \in SuiteSeqs[w + 1] : ret = Returned(r)
       \/ \E r \in HeaderReports \cup {ScenarioReport} : ret = Returned(r)
       \/ \E k \in 0..MaxChain : \E kinds \in [1..k -> ContainerKinds] :
            \E ds \in ChainEnds : ret = Returned(Chain(<<"test-suite">> \o kinds, ds))
       \/ \E kinds \in {<<>>} \cup {<<k>> : k \in ContainerKinds} :
            \E ds \in ShortEnds : ret = Returned(Chain(<<"test-suite">> \o kinds, ds))
    /\ out = <<>>

NextRender == PrintResults

SpecRender == InitRender /\ [][NextRender]_vars

(***************************************************************************)
(* Reading the printed report back                                         *)
(***************************************************************************)
Printed == pc = "done" /\ ret # None /\ ret.ok /\ ret.results # None

OutLines == lines(out)

\* a blank line holds nothing but the indentation it was given
IsBlank(line) == \A i \in 1..Len(line) : line[i] = SP

RECURSIVE Trim(_)
Trim(line) == IF line # <<>> /\ line[1] = SP THEN Trim(Tail(line)) ELSE line

IsEscape(tok) == Len(tok) > 3 /\ SubSeq(tok, 1, 3) = "ESC"

Visible(line) == SelectSeq(line, LAMBDA tok : ~IsEscape(tok))

Indented(ls, depth) == [i \in 1..Len(ls) |-> Spaces(IndentWidth * depth) \o ls[i]]

IsContainer(node) == node.tag \in {"test-suite", "test-case"}

NumLines(d) == Len(lines(TestDetail_fmt(d)))

\* the details that get no line: a properties marker, and the captured
\* output of a passed case
Hidden(parent, d) ==
    \/ d.tag = "properties"
    \/ d.tag = "output" /\ parent.tag = "test-case" /\ parent.result = "Passed"

Contributes(parent, d) == IF Hidden(parent, d) THEN 0 ELSE NumLines(d)

HeadLines(node) == IF node.tag = "test-case" /\ node.result = "Failed" THEN 2 ELSE 1

\* Every node of the tree with its nesting depth and the place of its lines
\* in the output: `count` lines from line `start` on.  The nodes below a
\* detail that got no line are left out.
RECURSIVE Occs(_, _, _, _)
Occs(node, parent, depth, start) ==
    LET count == IF parent = None THEN NumLines(node) ELSE Contributes(parent, node)
        self == [node |-> node, parent |-> parent, depth |-> depth,
                 start |-> start, count |-> count]
    IN  {self} \cup
        IF count > 0 /\ IsContainer(node)
        THEN LET ds == node.details
                 before[i \in 0..Len(ds)] ==
                    IF i = 0 THEN 0 ELSE before[i - 1] + Contributes(node, ds[i])
             IN  UNION {Occs(ds[i], node, depth + 1, start + HeadLines(node) + before[i - 1])
                            : i \in 1..Len(ds)}
        ELSE {}

RECURSIVE TopOccs(_, _)
TopOccs(suites, start) ==
    IF suites = <<>> THEN {}
    ELSE Occs(suites[1], None, 0, start)
            \cup TopOccs(Tail(suites), start + NumLines(suites[1]))

AllOccs == TopOccs(ret.results.test_suites, 1)

CaseOccs == {o \in AllOccs : o.node.tag = "test-case"}
SuiteOccs == {o \in AllOccs : o.node.tag = "test-suite"}

BlockIn(ol, o) == SubSeq(ol, o.start, o.start + o.count - 1)

BlockOf(o) == BlockIn(OutLines, o)

Without(node, tag) ==
    [node EXCEPT !.details = SelectSeq(node.details, LAMBDA d : d.tag # tag)]

RemoveAt(node, i) ==
    [node EXCEPT !.details = SubSeq(node.details, 1, i - 1)
                                \o SubSeq(node.details, i + 1, Len(node.details))]

NumTagged(node, tag) == Cardinality({i \in 1..Len(node.details) : node.details[i].tag = tag})

(***************************************************************************)
(* C1                                                                      *)
(***************************************************************************)
PlaceholderLine(depth) == Spaces(IndentWidth * depth) \o <<"[Properties]">>

PlaceholderLinesOf(o) ==
    LET block == BlockOf(o)
    IN  {i \in 1..Len(block) : block[i] = PlaceholderLine(o.depth + 1)}

\* C1 as claimed: every case is printed with one "[Properties]" line, one
\* unit under the case line, for each properties marker among its details.
C1_PlaceholderPerMarker ==
    Printed => \A o \in CaseOccs :
        Cardinality(PlaceholderLinesOf(o)) = NumTagged(o.node, "properties")

\* C1 as amended: a properties marker among the details of a case gets no
\* line, as in a suite: the case is printed exactly as the same case without
\* its markers, and no line of it is the "[Properties]" placeholder.
C1_MarkerSkippedInCase ==
    Printed => LET ol == OutLines IN \A o \in CaseOccs :
        LET block == BlockIn(ol, o)
        IN  /\ block = Indented(lines(TestCase_fmt(Without(o.node, "properties"))), o.depth)
            /\ \A i \in 1..Len(block) : Trim(Visible(block[i])) # <<"[Properties]">>

C1_Witness ==
    /\ Printed
    /\ \E o \in CaseOccs :
        /\ o.node.result = "Failed"
        /\ \E i, j \in 1..Len(o.node.details) :
              o.node.details[i].tag = "properties" /\ Contributes(o.node, o.node.details[j]) > 0

(***************************************************************************)
(* C2                                                                      *)
(***************************************************************************)
\* C2: a passed case is printed exactly as the same case without its output
\* details; a failed or skipped case prints every output detail whose text
\* is not empty: the lines of the text, one unit under the case line.
C2_OutputOnlyWhenNotPassed ==
    Printed => LET ol == OutLines IN
        /\ \A o \in CaseOccs : o.node.result = "Passed" =>
                BlockIn(ol, o) = Indented(lines(TestCase_fmt(Without(o.node, "output"))), o.depth)
        /\ \A o \in AllOccs :
                (/\ o.node.tag = "output"
                 /\ o.parent # None
                 /\ o.parent.tag = "test-case"
                 /\ o.parent.result # "Passed"
                 /\ o.node.text # <<>>)
                => /\ o.count >= 1
                   /\ o.start + o.count - 1 <= Len(ol)
                   /\ BlockIn(ol, o) = Indented(lines(o.node.text), o.depth)

C2_Witness ==
    /\ Printed
    /\ \E o \in CaseOccs :
        /\ o.node.result = "Passed"
        /\ \E i, j \in 1..Len(o.node.details) :
              /\ o.node.details[i].tag = "output"
              /\ Len(lines(o.node.details[i].text)) > 1
              /\ Contributes(o.node, o.node.details[j]) > 0

(***************************************************************************)
(* C3                                                                      *)
(***************************************************************************)
HeaderStyle(suite) ==
    IF suite.failed > 0 THEN "negative-inverted"
    ELSE IF suite.passed = suite.total THEN "positive-inverted"
    ELSE "muted-bold"

StyleEscape(style) ==
    CASE style = "negative-inverted" -> "ESC[48;2;255;47;109;38;2;28;28;28m"
      [] style = "positive-inverted" -> "ESC[48;2;0;175;135;38;2;28;28;28m"
      [] style = "muted-bold" -> "ESC[1;38;2;68;68;68m"

\* the name as the header shows it: the inverted styles pad it with a space
\* on either side
StyledName(style, name) ==
    IF style = "muted-bold" THEN <<name>> ELSE <<SP, name, SP>>

\* C3: the header line of every suite opens with the name in the style its
\* own counters select: negative-inverted when failed > 0, else
\* positive-inverted when passed = total, else muted-bold; whatever the
\* details of the suite are.  With colouring on the line opens with the
\* escape sequence of that style; with colouring off only the padding shows.
C3_HeaderStyleFromCounters ==
    Printed => LET ol == OutLines IN \A o \in SuiteOccs :
        LET style == HeaderStyle(o.node)
            shown == StyledName(style, o.node.name)
            opening == Spaces(IndentWidth * o.depth)
                        \o (IF colorize THEN <<StyleEscape(style)>> \o shown \o <<RESET>>
                            ELSE shown)
        IN  /\ o.start <= Len(ol)
            /\ Len(ol[o.start]) > Len(opening)
            /\ SubSeq(ol[o.start], 1, Len(opening)) = opening
            /\ ol[o.start][Len(opening) + 1] = SP

C3_Witness ==
    /\ Printed
    /\ colorize
    /\ \E o \in SuiteOccs :
        /\ o.node.failed > 0
        /\ o.node.passed = o.node.total
        /\ o.node.passed + o.node.failed + o.node.skipped # o.node.total
        /\ o.node.details # <<>>

(***************************************************************************)
(* C4                                                                      *)
(***************************************************************************)
IsEmptyCase(d, result) == d.tag = "test-case" /\ d.result = result /\ d.details = <<>>

PassedFailedSkipped(suite) ==
    /\ Len(suite.details) = 3
    /\ IsEmptyCase(suite.details[1], "Passed")
    /\ IsEmptyCase(suite.details[2], "Failed")
    /\ IsEmptyCase(suite.details[3], "Skipped")

\* C4: at every depth the lines of a failed case open with a blank line (it
\* holds the indentation of the case and nothing else), directly followed by
\* the case line; the lines of a passed or skipped case open with the case
\* line itself.  A suite of a passed, a failed and a skipped case, in that
\* order, has exactly one blank line: the third of its lines, directly
\* before the line of the failed case.
C4_BlankLineBeforeFailedOnly ==
    Printed => LET ol == OutLines IN
        /\ \A o \in CaseOccs :
            LET block == BlockIn(ol, o)
                caseLine == Spaces(IndentWidth * o.depth) \o CaseLine(o.node)
            IN  /\ Len(block) = o.count
                /\ IF o.node.result = "Failed"
                   THEN /\ Len(block) >= 2
                        /\ IsBlank(block[1])
                        /\ block[2] = caseLine
                   ELSE /\ Len(block) >= 1
                        /\ ~IsBlank(block[1])
                        /\ block[1] = caseLine
        /\ \A o \in SuiteOccs : PassedFailedSkipped(o.node) =>
            LET block == BlockIn(ol, o)
            IN  /\ Len(block) = 5
                /\ {i \in 1..Len(block) : IsBlank(block[i])} = {3}
                /\ block[4] = Spaces(IndentWidth * (o.depth + 1)) \o CaseLine(o.node.details[2])

C4_Witness ==
    /\ Printed
    /\ \E o \in SuiteOccs : PassedFailedSkipped(o.node) /\ o.depth > 0

(***************************************************************************)
(* C6                                                                      *)
(***************************************************************************)
\* a failure detail that is printed as one line of its own
OneLine(d) == FailureDetail_fmt(d) # <<>> /\ \A i \in 1..Len(d.text) : d.text[i] # LF

\* C6: every line printed for a node at nesting depth d (a suite of the
\* report at depth 0, the details of a suite or case one deeper than it) is
\* the line of the node's own text behind exactly IndentWidth * d spaces,
\* for every line of a text of several lines; the lines of the details of a
\* failure or reason stand at the depth of the failure or reason itself.
C6_IndentationCumulative ==
    Printed => LET ol == OutLines IN \A o \in {x \in AllOccs : x.count > 0} :
        /\ o.start + o.count - 1 <= Len(ol)
        /\ BlockIn(ol, o) = Indented(lines(TestDetail_fmt(o.node)), o.depth)
        /\ (/\ o.node.tag \in {"failure", "reason"}
            /\ \A j \in 1..Len(o.node.details) : OneLine(o.node.details[j]))
           => BlockIn(ol, o) = [j \in 1..Len(o.node.details) |->
                    Spaces(IndentWidth * o.depth) \o FailureDetail_fmt(o.node.details[j])]

C6_Witness ==
    /\ Printed
    /\ \E o \in AllOccs :
        /\ o.depth > 1
        /\ o.node.tag = "failure"
        /\ Len(o.node.details) = 1
        /\ o.count > 1

(***************************************************************************)
(* C7                                                                      *)
(***************************************************************************)
RECURSIVE Concat(_)
Concat(seqs) == IF seqs = <<>> THEN <<>> ELSE seqs[1] \o Concat(Tail(seqs))

\* the lines of a tree in depth-first pre-order, without their indentation
RECURSIVE PreOrder(_, _)
PreOrder(node, parent) ==
    IF parent # None /\ Hidden(parent, node) THEN <<>>
    ELSE IF IsContainer(node)
    THEN (IF node.tag = "test-suite" THEN <<SuiteHeader(node)>> ELSE CaseHead(node))
            \o Concat([i \in 1..Len(node.details) |-> PreOrder(node.details[i], node)])
    ELSE lines(TestDetail_fmt(node))

ScenarioLines ==
    <<  <<SP, "Core", SP, SP, "2", SP, "1", SP, "0">>,
        Spaces(IndentWidth) \o <<"v", SP, "A">>,
        Spaces(IndentWidth) \o <<"v", SP, "B">>,
        Spaces(IndentWidth),
        Spaces(IndentWidth) \o <<"x", SP, "C">>,
        Spaces(IndentWidth + IndentWidth) \o <<"expected 1 got 2">>,
        Spaces(IndentWidth + IndentWidth) \o <<"at Foo.Bar:12">>  >>

\* C7: the printed lines, their indentation set aside, are the lines of the
\* tree in depth-first pre-order: the suites of the report in their order,
\* the line of a suite or case before the lines of its details, the details
\* in their order whatever their variants.  The scenario of the
\* specification prints as its header with the counts 2 1 0, the two passed
\* cases, a blank line, the failed case, the message, the stack trace.
C7_DocumentOrder ==
    Printed => LET ol == OutLines
                   suites == ret.results.test_suites
                   expected == IF suites = <<>> THEN << <<>> >>
                               ELSE Concat([i \in 1..Len(suites) |-> PreOrder(suites[i], None)])
               IN  /\ [i \in 1..Len(ol) |-> Trim(ol[i])]
                        = [i \in 1..Len(expected) |-> Trim(expected[i])]
                   /\ suites = ScenarioReport =>
                        [i \in 1..Len(ol) |-> Visible(ol[i])] = ScenarioLines

C7_Witness ==
    /\ Printed
    /\ ret.results.test_suites = ScenarioReport
    /\ colorize

(***************************************************************************)
(* C8                                                                      *)
(***************************************************************************)
SkippedInSuite(d) == d.tag = "properties" \/ TestDetail_fmt(d) = <<>>

RECURSIVE LinesOfShown(_)
LinesOfShown(ds) ==
    IF ds = <<>> THEN 0
    ELSE (IF SkippedInSuite(ds[1]) THEN 0 ELSE NumLines(ds[1])) + LinesOfShown(Tail(ds))

\* C8: a detail of a suite gets no line (taking it out of the suite leaves
\* the text of the suite as it is) exactly when it is a properties marker or
\* its own text is empty; every other detail gets at least one line; the
\* suite is printed in one line more than its details that are not skipped
\* have together.
C8_SuiteSkipsOnlyMarkersAndEmpty ==
    Printed => LET ol == OutLines IN \A o \in SuiteOccs :
        LET ds == o.node.details
            text == TestSuite_fmt(o.node)
        IN  /\ \A i \in 1..Len(ds) :
                LET rest == TestSuite_fmt(RemoveAt(o.node, i))
                IN  /\ (rest = text) <=> SkippedInSuite(ds[i])
                    /\ ~SkippedInSuite(ds[i]) => Len(lines(rest)) < Len(lines(text))
            /\ Len(BlockIn(ol, o)) = 1 + LinesOfShown(ds)
            /\ \A i \in 1..Len(BlockIn(ol, o)) : BlockIn(ol, o)[i] # <<>>

C8_Witness ==
    /\ Printed
    /\ \E o \in SuiteOccs : \E i, j, k \in 1..Len(o.node.details) :
        /\ o.node.details[i].tag = "properties"
        /\ o.node.details[j].tag # "properties"
        /\ TestDetail_fmt(o.node.details[j]) = <<>>
        /\ NumLines(o.node.details[k]) > 0

(***************************************************************************)
(* Loading the report, finding Unity, and the order of test()'s steps      *)
(***************************************************************************)
Unreadable(f) == f = None \/ ~de_TestSummary(f).ok

\* C5: once the report file has been opened and it is missing or does not
\* deserialize (an invalid result, an unknown child tag, a missing
\* attribute), the caller holds an error value, IoError for the missing file
\* and MalformedReport otherwise; the process has not been terminated in
\* its place.
C5_LoadFailureIsAnErrorValue ==
    (opens > 0 /\ Unreadable(file)) =>
        /\ ret # None
        /\ ~ret.ok
        /\ ret.err = (IF file = None THEN "IoError" ELSE "MalformedReport")

\* C9: once find_unity_path is over, the entry it selected is the greatest
\* of a non-empty directory, and for a readable directory without entries
\* the caller holds an error value.
C9_SelectsMostRecent ==
    pc # "start" =>
        /\ path # 0 => \A d \in dirs.entries : d <= path
        /\ (dirs.readable /\ dirs.entries = {}) => (ret # None /\ ~ret.ok)

\* C10: the report file is opened at most once, and only after the errors
\* have been extracted from the stdout of this run and found to be none;
\* what test() returns holds exactly the lines of this run's stdout that
\* contain "error CS", holds a summary if and only if there are none, and
\* the summary is the one of the file as Unity left it; with at least one
\* such line the file has never been opened.
C10_ReportReadOnlyAfterCleanCompile ==
    /\ opens \in {0, 1}
    /\ opens = 1 =>
          /\ pc \in {"returned", "panicked", "done"}
          /\ errs = ErrorsIn(log)
          /\ errs = {}
    /\ pc = "extracted" => errs = ErrorsIn(log)
    /\ (ret # None /\ ret.ok) =>
          /\ ret.errs = ErrorsIn(log)
          /\ (ret.results # None) <=> (ret.errs = {})
          /\ ret.errs # {} => opens = 0
          /\ ret.results # None =>
                /\ opens = 1
                /\ ret.results = de_TestSummary(file).value

C10_Witness ==
    /\ pc = "done"
    /\ ret.ok
    /\ ret.errs # {}
    /\ ret.results = None
    /\ ~Unreadable(file)
    /\ opens = 0
    /\ out # <<>>

\* deserializing the document written for a summary gives the summary back
RoundTrip ==
    \A f \in WellFormed : de_TestSummary(f).ok /\ TestRun(de_TestSummary(f).value.test_suites) = f
====
